---- MODULE Spec2Model ----
(***************************************************************************)
(* Multi-group debt ledger and settlement matching of e-io-pago.           *)
(*                                                                         *)
(* The ledger itself (ExpenseManager: createGroup, addExpense, markAsPaid, *)
(* batchMarkAsPaid, getDebt, ...) is a smart contract whose source is not  *)
(* part of src/; its operations are modelled from spec.md sections 3-4.    *)
(* The settlement flow that drives it (findExpensesByCreditor,             *)
(* handlePaidCommand, batchMarkDebtsAsPaid, markDebtAsPaid) is modelled    *)
(* from src/src/utils/blockchain.ts and the payment handler.               *)
(***************************************************************************)
EXTENDS Integers, Sequences, FiniteSets, Bags, TLC

(***************************************************************************)
(* Bounds                                                                  *)
(***************************************************************************)
MaxExpenses == 2
MaxAmount == 2
MaxTotal == 3
MaxTicks == 5
MaxRequests == 4

(***************************************************************************)
(* Addresses.  The contract returns checksummed addresses ("A"); the chat  *)
(* layer hands the sender and the resolved creditor in lower case ("a").   *)
(***************************************************************************)
Accounts == {"A", "B", "C"}
LowerForms == {"a", "b", "c"}
AddrForms == Accounts \cup LowerForms
GroupIds == {"G1", "G2"}
Workers == {1, 2}

\* createGroup calls tried: <<caller, groupId, members>>
CreateInputs ==
  {<<"A", "G1", {"A", "B", "C"}>>, <<"A", "G2", {"A", "B"}>>,
   <<"C", "G2", {"A", "B"}>>, <<"A", "G1", {}>>}
\* addExpense calls tried: <<groupId, payer>>
ExpenseInputs == {<<"G1", "A">>, <<"G2", "B">>, <<"G2", "C">>}
\* markSinglePaid calls tried: <<caller, creditor>>, as the chat layer hands them
MarkInputs == {<<"b", "a">>, <<"a", "b">>}
\* settlement requests tried: <<groupId, sender, resolved creditor>>
SettleInputs ==
  {<<"G1", "b", "a">>, <<"G1", "c", "a">>, <<"G2", "a", "b">>}
\* the narrow inputs of the two-request race
RaceCreateInputs == {<<"A", "G1", {"A", "B", "C"}>>}
RaceExpenseInputs == {<<"G1", "A">>}
RaceSettleInputs == {<<"G1", "b", "a">>}

\* createGroup calls tried against the registry alone
LedgerCreateInputs ==
  CreateInputs \cup {<<"C", "G2", {"C"}>>, <<"bot", "G1", {"A", "B"}>>}
\* createGroup calls behind the groups the receipt flow finds
ReceiptCreateInputs == CreateInputs \cup {<<"A", "G1", {"A"}>>}

\* the bot's own address, which the receipt flow removes from the member list
Bot == "bot"
\* ensureGroupExists calls tried: <<groupId, members, creator key>>
EnsureInputs ==
  {<<"G1", {"a", "b", "c"}, "a">>, <<"G2", {"a", "b"}, "b">>, <<"G1", {"a", "b"}, "bot">>}
\* receipts tried: <<groupId, chat members, sender>>
ReceiptInputs ==
  {<<"G1", {"a", "b", "c", "bot"}, "a">>, <<"G1", {"a", "b", "bot"}, "a">>,
   <<"G1", {"a", "bot"}, "a">>, <<"G2", {"a", "b", "bot"}, "b">>}

\* getUserBalanceInfo calls tried: <<groupId, userAddress, botAddress>>,
\* "none" for a call without botAddress
BalanceInputs ==
  {<<"G1", "a", "none">>, <<"G1", "b", "a">>, <<"G1", "a", "C">>,
   <<"G2", "a", "B">>, <<"G2", "b", "none">>}

\* concurrent ensureGroupExists calls tried: <<groupId, members, creator key>>
CallInputs ==
  {<<"G1", {"a", "b", "c"}, "a">>, <<"G1", {"a", "b"}, "b">>, <<"G2", {"a", "b"}, "a">>}

\* "paid <creditor>" commands tried: <<groupId, sender, creditor identifier>>
PaidCommands ==
  {<<"G1", "b", "A">>, <<"G1", "c", "a">>, <<"G2", "a", "B">>, <<"G1", "a", "b">>,
   <<"G1", "b", "nobody">>}

\* POST /api/mark-paid bodies tried: <<groupId, debtorAddress, creditorAddress>>,
\* "" for a field that is missing
ApiInputs ==
  {<<"G1", "b", "a">>, <<"G1", "c", "a">>, <<"G2", "a", "b">>, <<"G1", "a", "b">>,
   <<"", "b", "a">>, <<"G1", "", "a">>, <<"G1", "b", "">>}
\* process.env.XMTP_WALLET_KEY, the bot's private key
BotKey == "botkey"

\* the senders whose messages reach checkRateLimit
Senders == {"a", "b"}

\* String.prototype.toLowerCase on an address
ToLowerCase(x) ==
  CASE x = "A" -> "a"
    [] x = "B" -> "b"
    [] x = "C" -> "c"
    [] OTHER -> x

\* ABI encoding of an address argument: the 20-byte value, whatever the case
AbiAddress(x) ==
  CASE x = "a" -> "A"
    [] x = "b" -> "B"
    [] x = "c" -> "C"
    [] OTHER -> x

VARIABLES
  groups,     \* Group Registry: groupId -> [exists, members]
  expenses,   \* Expense Store: sequence of expense records, id = index
  debts,      \* Debt Ledger: <<groupId, debtor, creditor>> -> amount
  payments,   \* Payment log: bag of payment records
  retired,    \* set of <<expenseId, debtor>> marked retired
  res,        \* rejection reported by the last direct ledger call
  wk,         \* the settlement requests (handlePaidCommand invocations)
  visible,    \* the groups whose registration reads through the provider see
  ens,        \* the ensureGroupExists call in progress and the receipt it serves
  bal,        \* the last getUserBalanceInfo call and what it returned
  rate,       \* the rate limiter: clock, lastMessageTime and the last verdict
  api,        \* the POST /api/mark-paid request in progress and its response
  calls       \* ensureGroupExists calls running concurrently

vars ==
  <<groups, expenses, debts, payments, retired, res, wk, visible, ens,
    bal, rate, api, calls>>

Edges == GroupIds \X Accounts \X Accounts

RECURSIVE SumSeq(_)
SumSeq(s) == IF s = <<>> THEN 0 ELSE Head(s) + SumSeq(Tail(s))

Range(s) == {s[i] : i \in DOMAIN s}


NoRes == [op |-> "none", status |-> "none", args |-> <<>>]

(***************************************************************************)
(* The ledger contract (modelled from spec.md)                             *)
(***************************************************************************)

\* getDebt(groupId, debtor, creditor): the outstanding amount, 0 if none
GetDebt(g, d, c) == debts[<<g, d, c>>]

\* getGroupExpenses(groupId): ids of the group's expenses in creation order
ContractGetGroupExpenses(g) ==
  SelectSeq([i \in 1..Len(expenses) |-> i], LAMBDA i : expenses[i].groupId = g)

\* createGroup(groupId, members) sent by caller
ContractCreateGroup(caller, g, members) ==
  IF groups[g].exists THEN [status |-> "AlreadyExists", groups |-> groups]
  ELSE IF members = {} \/ caller \notin members
    THEN [status |-> "InvalidMembers", groups |-> groups]
  ELSE [status |-> "ok",
        groups |-> [groups EXCEPT ![g] = [exists |-> TRUE, members |-> members]]]

\* ContractAddExpense charging the payer's share back on the reverse edges too
ContractAddExpense_BothWays(g, payer, total, pp) ==
  IF ~groups[g].exists \/ payer \notin groups[g].members
    THEN [status |-> "NotAMember", expenses |-> expenses, debts |-> debts]
  ELSE IF total <= 0 \/ pp <= 0
    THEN [status |-> "InvalidAmount", expenses |-> expenses, debts |-> debts]
  ELSE IF groups[g].members \ {payer} = {}
    THEN [status |-> "NoParticipants", expenses |-> expenses, debts |-> debts]
  ELSE LET parts == groups[g].members \ {payer} IN
       [status |-> "ok",
        expenses |-> Append(expenses,
                      [groupId |-> g, payer |-> payer, totalAmount |-> total,
                       perPersonAmount |-> pp, participants |-> parts]),
        debts |-> [e \in Edges |->
                    IF e[1] = g /\ ((e[3] = payer /\ e[2] \in parts)
                                    \/ (e[2] = payer /\ e[3] \in parts))
                      THEN debts[e] + pp ELSE debts[e]]]

\* addExpense(groupId, payer, ..., totalAmount, perParticipantAmount, ...)
ContractAddExpense(g, payer, total, pp) ==
  IF ~groups[g].exists \/ payer \notin groups[g].members
    THEN [status |-> "NotAMember", expenses |-> expenses, debts |-> debts]
  ELSE IF total <= 0 \/ pp <= 0
    THEN [status |-> "InvalidAmount", expenses |-> expenses, debts |-> debts]
  ELSE IF groups[g].members \ {payer} = {}
    THEN [status |-> "NoParticipants", expenses |-> expenses, debts |-> debts]
  ELSE LET parts == groups[g].members \ {payer} IN
       [status |-> "ok",
        expenses |-> Append(expenses,
                      [groupId |-> g, payer |-> payer, totalAmount |-> total,
                       perPersonAmount |-> pp, participants |-> parts]),
        debts |-> [e \in Edges |->
                    IF e[1] = g /\ e[3] = payer /\ e[2] \in parts
                      THEN debts[e] + pp ELSE debts[e]]]

\* the Payment records written for a batch, one per expense
RECURSIVE PaymentsFor(_, _, _)
PaymentsFor(ids, debtor, creditor) ==
  IF ids = <<>> THEN EmptyBag
  ELSE SetToBag({[expenseId |-> Head(ids), from |-> debtor, to |-> creditor,
                  amount |-> expenses[Head(ids)].perPersonAmount]})
       (+) PaymentsFor(Tail(ids), debtor, creditor)

\* the amount a batch settles: the sum of its expenses' shares
BatchTotal(ids) ==
  SumSeq([k \in 1..Len(ids) |-> expenses[ids[k]].perPersonAmount])

\* a settlement call that changes nothing, with the status it reports
Untouched(status) ==
  [status |-> status, debts |-> debts, payments |-> payments, retired |-> retired]

\* ContractSettle clearing the edge instead of subtracting the batch total
ContractSettle_Clear(g, ids, debtor, creditor) ==
  LET edge == <<g, debtor, creditor>>
      total == BatchTotal(ids) IN
  IF debts[edge] < total THEN Untouched("DebtMismatch")
  ELSE [status |-> "ok",
        debts |-> [debts EXCEPT ![edge] = 0],
        payments |-> payments (+) PaymentsFor(ids, debtor, creditor),
        retired |-> retired \cup {<<ids[k], debtor>> : k \in 1..Len(ids)}]

\* ContractSettle without the comparison of the batch total against the edge
ContractSettle_NoCheck(g, ids, debtor, creditor) ==
  LET edge == <<g, debtor, creditor>>
      total == BatchTotal(ids) IN
  [status |-> "ok",
   debts |-> [debts EXCEPT ![edge] = @ - total],
   payments |-> payments (+) PaymentsFor(ids, debtor, creditor),
   retired |-> retired \cup {<<ids[k], debtor>> : k \in 1..Len(ids)}]

\* ContractSettle taking the batch total off every debtor's edge towards the
\* creditor in the group
ContractSettle_AllDebtors(g, ids, debtor, creditor) ==
  LET edge == <<g, debtor, creditor>>
      total == BatchTotal(ids) IN
  IF debts[edge] < total THEN Untouched("DebtMismatch")
  ELSE [status |-> "ok",
        debts |-> [e \in Edges |->
                    IF e[1] = g /\ e[3] = creditor /\ debts[e] >= total
                      THEN debts[e] - total ELSE debts[e]],
        payments |-> payments (+) PaymentsFor(ids, debtor, creditor),
        retired |-> retired \cup {<<ids[k], debtor>> : k \in 1..Len(ids)}]

\* settlement of a batch against one edge: all of it or none of it
ContractSettle(g, ids, debtor, creditor) ==
  LET edge == <<g, debtor, creditor>>
      total == BatchTotal(ids) IN
  IF debts[edge] < total THEN Untouched("DebtMismatch")
  ELSE [status |-> "ok",
        debts |-> [debts EXCEPT ![edge] = @ - total],
        payments |-> payments (+) PaymentsFor(ids, debtor, creditor),
        retired |-> retired \cup {<<ids[k], debtor>> : k \in 1..Len(ids)}]

\* markAsPaid(expenseId, creditor) sent by the debtor
ContractMarkAsPaid(caller, eid, creditor) ==
  IF eid \notin 1..Len(expenses) THEN Untouched("NotFound")
  ELSE ContractSettle(expenses[eid].groupId, <<eid>>, caller, creditor)

\* batchMarkAsPaid(expenseIds, debtor, creditor): one transaction
ContractBatchMarkAsPaid(ids, debtor, creditor) ==
  IF \E k \in 1..Len(ids) : ids[k] \notin 1..Len(expenses) THEN Untouched("NotFound")
  ELSE IF ids = <<>> THEN Untouched("ok")
  ELSE ContractSettle(expenses[ids[1]].groupId, ids, debtor, creditor)

\* the order in which the contract enumerates counterparties
AccountOrder == <<"A", "B", "C">>

\* getUserDebts(groupId, accountId): the non-zero edges accountId owes, as
\* the pair <<creditors, amounts>> of parallel arrays
ContractGetUserDebts(g, a) ==
  LET owed == SelectSeq(AccountOrder, LAMBDA c : debts[<<g, a, c>>] > 0) IN
  <<owed, [i \in 1..Len(owed) |-> debts[<<g, a, owed[i]>>]]>>

\* getUserCredits(groupId, accountId): the non-zero edges owed to accountId,
\* as the pair <<debtors, amounts>>
ContractGetUserCredits(g, a) ==
  LET owing == SelectSeq(AccountOrder, LAMBDA d : debts[<<g, d, a>>] > 0) IN
  <<owing, [i \in 1..Len(owing) |-> debts[<<g, owing[i], a>>]]>>

(***************************************************************************)
(* Balance queries (src/src/utils/blockchain.ts)                           *)
(***************************************************************************)

\* botAddress?.toLowerCase()
OptionalLower(botAddress) ==
  IF botAddress = "none" THEN "none" ELSE ToLowerCase(botAddress)

\* amounts[index] ?? 0n
AmountAt(amounts, index) == IF index \in DOMAIN amounts THEN amounts[index] ELSE 0

\* debtCreditors.map((creditor, index) => ({creditor, amount: debtAmounts[index] ?? 0n}))
MapDebts(read) ==
  [i \in 1..Len(read[1]) |-> [creditor |-> read[1][i], amount |-> AmountAt(read[2], i)]]

\* MapCredits giving every debtor the first amount of the array
MapCredits_FirstAmount(read) ==
  [i \in 1..Len(read[1]) |-> [debtor |-> read[1][i], amount |-> AmountAt(read[2], 1)]]

\* creditDebtors.map((debtor, index) => ({debtor, amount: creditAmounts[index] ?? 0n}))
MapCredits(read) ==
  [i \in 1..Len(read[1]) |-> [debtor |-> read[1][i], amount |-> AmountAt(read[2], i)]]

\* getUserBalanceInfo comparing the counterparty as the contract returned it
getUserBalanceInfo_CaseSensitive(g, userAddress, botAddress, ok) ==
  IF ~ok THEN [debts |-> <<>>, credits |-> <<>>, netBalance |-> 0]
  ELSE
    LET botAddressLower == OptionalLower(botAddress)
        dbs == SelectSeq(MapDebts(ContractGetUserDebts(g, AbiAddress(userAddress))),
                 LAMBDA debt : botAddressLower = "none"
                               \/ debt.creditor # botAddressLower)
        crs == SelectSeq(MapCredits(ContractGetUserCredits(g, AbiAddress(userAddress))),
                 LAMBDA credit : botAddressLower = "none"
                                 \/ credit.debtor # botAddressLower)
        totalDebts == SumSeq([i \in 1..Len(dbs) |-> dbs[i].amount])
        totalCredits == SumSeq([i \in 1..Len(crs) |-> crs[i].amount]) IN
    [debts |-> dbs, credits |-> crs, netBalance |-> totalCredits - totalDebts]

\* getUserBalanceInfo: both lists read, the bot filtered out, the sums and
\* their difference; empty lists and 0n when a read throws
getUserBalanceInfo(g, userAddress, botAddress, ok) ==
  IF ~ok THEN [debts |-> <<>>, credits |-> <<>>, netBalance |-> 0]
  ELSE
    LET botAddressLower == OptionalLower(botAddress)
        dbs == SelectSeq(MapDebts(ContractGetUserDebts(g, AbiAddress(userAddress))),
                 LAMBDA debt : botAddressLower = "none"
                               \/ ToLowerCase(debt.creditor) # botAddressLower)
        crs == SelectSeq(MapCredits(ContractGetUserCredits(g, AbiAddress(userAddress))),
                 LAMBDA credit : botAddressLower = "none"
                                 \/ ToLowerCase(credit.debtor) # botAddressLower)
        totalDebts == SumSeq([i \in 1..Len(dbs) |-> dbs[i].amount])
        totalCredits == SumSeq([i \in 1..Len(crs) |-> crs[i].amount]) IN
    [debts |-> dbs, credits |-> crs, netBalance |-> totalCredits - totalDebts]

(***************************************************************************)
(* The settlement flow (src/src/utils/blockchain.ts, payment handler)      *)
(***************************************************************************)

\* getDebtAmount: the debt edge read through the contract, 0n when the read throws
getDebtAmount(g, d, c, ok) ==
  IF ok THEN GetDebt(g, AbiAddress(d), AbiAddress(c)) ELSE 0

\* getGroupExpenses handing the list back newest first
getGroupExpenses_Reversed(g, ok) ==
  IF ok THEN LET ids == ContractGetGroupExpenses(g) IN
             [i \in 1..Len(ids) |-> ids[Len(ids) + 1 - i]]
  ELSE <<>>

\* getGroupExpenses: the id list read through the contract, [] when the read throws
getGroupExpenses(g, ok) == IF ok THEN ContractGetGroupExpenses(g) ELSE <<>>

\* expense.payer.toLowerCase() !== creditorAddress.toLowerCase() -> continue
PayerIsCreditor(e, c) == ToLowerCase(e.payer) = ToLowerCase(c)

\* expense.participants.some(p => p.toLowerCase() === debtor.toLowerCase())
isParticipant(e, d) ==
  \E p \in e.participants : ToLowerCase(p) = ToLowerCase(d)

\* FitsDebt with a strict comparison
FitsDebt_Strict(acc, amount, totalDebt) == acc + amount < totalDebt

\* FitsDebt without the comparison against the debt read
FitsDebt_Always(acc, amount, totalDebt) == TRUE

\* accumulatedAmount + expense.perPersonAmount <= totalDebt
FitsDebt(acc, amount, totalDebt) == acc + amount <= totalDebt

\* the for-loop of findExpensesByCreditor over the id list, exps being the
\* expense records getExpense reads; bad holds the ids whose getExpense read
\* throws (getExpense then returns null)
RECURSIVE MatchLoop(_, _, _, _, _, _, _, _)
MatchLoop(exps, ids, bad, d, c, totalDebt, acc, matching) ==
  IF ids = <<>> THEN matching
  ELSE LET id == Head(ids)
           e == exps[id] IN
       IF id \in bad THEN
         MatchLoop(exps, Tail(ids), bad, d, c, totalDebt, acc, matching)
       ELSE IF ~PayerIsCreditor(e, c) THEN
         MatchLoop(exps, Tail(ids), bad, d, c, totalDebt, acc, matching)
       ELSE IF isParticipant(e, d) /\ FitsDebt(acc, e.perPersonAmount, totalDebt) THEN
         MatchLoop(exps, Tail(ids), bad, d, c, totalDebt, acc + e.perPersonAmount,
                   Append(matching, id))
       ELSE MatchLoop(exps, Tail(ids), bad, d, c, totalDebt, acc, matching)

\* IsZeroDebt with the early return removed
IsZeroDebt_Never(totalDebt) == FALSE

\* totalDebt === 0n -> return []
IsZeroDebt(totalDebt) == totalDebt = 0

\* matchingExpenses.length === 0 -> reply "You don't owe any money", return
IsEmptySelection(matching) == Len(matching) = 0

\* the reply of handlePaidCommand when findExpensesByCreditor returned []
EmptySelectionReply(totalDebt) == "NoDebt"

\* batchMarkDebtsAsPaid sending one transaction per expense: the first one
\* goes through even when the batch as a whole cannot
batchMarkDebtsAsPaid_OneByOne(ids, debtor, creditor) ==
  LET whole == ContractBatchMarkAsPaid(ids, AbiAddress(debtor), AbiAddress(creditor))
      first == ContractBatchMarkAsPaid(SubSeq(ids, 1, 1), AbiAddress(debtor),
                                       AbiAddress(creditor)) IN
  IF whole.status = "ok" \/ first.status # "ok" THEN whole
  ELSE [first EXCEPT !.status = whole.status]

\* batchMarkDebtsAsPaid: a single batchMarkAsPaid transaction
batchMarkDebtsAsPaid(ids, debtor, creditor) ==
  ContractBatchMarkAsPaid(ids, AbiAddress(debtor), AbiAddress(creditor))

\* markDebtAsPaid with the two parties exchanged
markDebtAsPaid_Swapped(eid, creditor, debtorKey) ==
  ContractMarkAsPaid(AbiAddress(creditor), eid, AbiAddress(debtorKey))

\* markDebtAsPaid: a markAsPaid transaction signed with the debtor's key
markDebtAsPaid(eid, creditor, debtorKey) ==
  ContractMarkAsPaid(AbiAddress(debtorKey), eid, AbiAddress(creditor))

\* a settlement request that is not running; since is the number of expenses
\* stored when the debt was read; peer, base and peerDec record, for two
\* requests overlapping on one edge, the debt read by the first and what the
\* other has settled
IdleWorker ==
  [pc |-> "idle", g |-> "G1", d |-> "a", c |-> "a", totalDebt |-> 0,
   matching |-> <<>>, outcome |-> "none",
   peer |-> FALSE, base |-> 0, since |-> 0, peerDec |-> 0]

InFlight(w) == wk[w].pc \in {"list", "submit"}

Other(w) == CHOOSE o \in Workers : o # w

SameEdge(w, g, d, c) == wk[w].g = g /\ wk[w].d = d /\ wk[w].c = c

Finished(w, g, d, c, outcome) ==
  [IdleWorker EXCEPT !.pc = "done", !.g = g, !.d = d, !.c = c, !.outcome = outcome]

(***************************************************************************)
(* Group creation and the receipt flow (blockchain.ts, index.ts)           *)
(***************************************************************************)

\* const maxRetries = 10
maxRetries == 10

\* groupExists: group.exists as the provider reports it, false when the read throws
groupExists(g, ok) == IF ok THEN g \in visible ELSE FALSE

\* the address that signs with a private key
SignerOf(key) == AbiAddress(key)

\* createGroup adding the signer to the member list it sends
createGroup_SelfAdded(g, members, creatorKey) ==
  ContractCreateGroup(SignerOf(creatorKey), g,
                      {AbiAddress(m) : m \in members} \cup {SignerOf(creatorKey)})

\* createGroup: a createGroup transaction signed with the creator's key
createGroup(g, members, creatorKey) ==
  ContractCreateGroup(SignerOf(creatorKey), g, {AbiAddress(m) : m \in members})

\* calculateSplit in cents: Math.round(total / numberOfPeople), halves rounded up
calculateSplit(total, numberOfPeople) ==
  (2 * total + numberOfPeople) \div (2 * numberOfPeople)

\* addExpenseOnchain raising non-positive amounts to the smallest unit
addExpenseOnchain_Clamped(g, total, perPersonAmount, payerAddress) ==
  ContractAddExpense(g, AbiAddress(payerAddress),
                     IF total <= 0 THEN 1 ELSE total,
                     IF perPersonAmount <= 0 THEN 1 ELSE perPersonAmount)

\* addExpenseOnchain: an addExpense transaction for the payer
addExpenseOnchain(g, total, perPersonAmount, payerAddress) ==
  ContractAddExpense(g, AbiAddress(payerAddress), total, perPersonAmount)

\* no ensureGroupExists call running; receipt holds <<sender, total, perPerson>>
\* when the call serves a receipt, again tells that the call before this one
\* had the same arguments and returned; replies counts the result replies the
\* attachment handler has sent and txLink tells whether the reply carries the
\* transaction link
IdleEnsure ==
  [pc |-> "idle", g |-> "G1", members |-> {}, creator |-> "a", retries |-> 0,
   creates |-> 0, outcome |-> "none", receipt |-> <<>>, again |-> FALSE,
   replies |-> 0, txLink |-> FALSE]

\* the attachment handler after its try/catch around the on-chain steps: the
\* result reply is sent, with the transaction link when txHash is not empty;
\* e is the call as it ended, and nothing is sent when it served no receipt
ResultReply(e, txHashSet) ==
  IF ens.receipt = <<>> THEN e
  ELSE [e EXCEPT !.replies = @ + 1, !.txLink = txHashSet]

\* the call before returned (no throw) and had these arguments
CalledBefore(g, members, creator) ==
  /\ ens.pc = "done"
  /\ ens.outcome \in {"Exists", "Created"}
  /\ <<ens.g, ens.members, ens.creator>> = <<g, members, creator>>

\* the call has ended with an outcome
EnsureDone(outcome) ==
  [ens EXCEPT !.pc = "done", !.retries = 0, !.outcome = outcome]

\* ensureGroupExists has returned: the receipt flow goes on to addExpenseOnchain
EnsureReturned(outcome) ==
  IF ens.receipt = <<>> THEN EnsureDone(outcome)
  ELSE [ens EXCEPT !.pc = "add", !.retries = 0, !.outcome = outcome]

\* no getUserBalanceInfo call made yet; at is the ledger the call read
NoBalance ==
  [g |-> "G1", user |-> "a", exclude |-> "none", value |-> <<>>, at |-> <<>>]

(***************************************************************************)
(* Rate limiting (src/src/index.ts)                                        *)
(***************************************************************************)

\* const RATE_LIMIT_MS = 5000
RATE_LIMIT_MS == 5000

\* the milliseconds between the instants at which Date.now() is observed
TickMs == 2500

\* rateLimitMap empty and the clock at a positive time; log keeps the
\* requests made: sender, time and what checkRateLimit returned
InitRate == [now |-> TickMs, rateLimitMap |-> <<>>, log |-> <<>>]

\* checkRateLimit writing the time of every request into the map
checkRateLimit_AlwaysStamp(userAddress) ==
  LET limited == /\ userAddress \in DOMAIN rate.rateLimitMap
                 /\ rate.rateLimitMap[userAddress] # 0
                 /\ rate.now - rate.rateLimitMap[userAddress] < RATE_LIMIT_MS IN
  [ok |-> ~limited,
   rateLimitMap |-> (userAddress :> rate.now) @@ rate.rateLimitMap]

\* checkRateLimit: lastRequest && now - lastRequest < RATE_LIMIT_MS -> false;
\* otherwise rateLimitMap.set(userAddress, now) and true
checkRateLimit(userAddress) ==
  LET limited == /\ userAddress \in DOMAIN rate.rateLimitMap
                 /\ rate.rateLimitMap[userAddress] # 0
                 /\ rate.now - rate.rateLimitMap[userAddress] < RATE_LIMIT_MS IN
  IF limited THEN [ok |-> FALSE, rateLimitMap |-> rate.rateLimitMap]
  ELSE [ok |-> TRUE,
        rateLimitMap |-> (userAddress :> rate.now) @@ rate.rateLimitMap]

(***************************************************************************)
(* POST /api/mark-paid (src/src/api/mark-paid.ts)                          *)
(***************************************************************************)

\* no contract call made
NoCall == [sent |-> FALSE, ids |-> <<>>, debtor |-> "", creditor |-> "", key |-> ""]

\* no request handled yet; status is the HTTP status of the response and call
\* the arguments batchMarkDebtsAsPaid received
IdleApi ==
  [pc |-> "idle", g |-> "", debtor |-> "", creditor |-> "", status |-> 0,
   expenseIds |-> <<>>, call |-> NoCall]

\* findExpensesByCreditor as one read-only pass: the debt read, the early
\* return on 0n, the id list and the greedy loop
findExpensesByCreditor(g, d, c, debtOk, listOk, bad) ==
  LET totalDebt == getDebtAmount(g, d, c, debtOk) IN
  IF IsZeroDebt(totalDebt) THEN <<>>
  ELSE MatchLoop(expenses, getGroupExpenses(g, listOk), bad, d, c, totalDebt, 0, <<>>)

\* batchMarkDebtsAsPaid(expenseIds, debtor, creditor, botPrivateKey) with the
\* wallet built from botPrivateKey: new ethers.Wallet(undefined) throws
\* before anything is sent
batchMarkDebtsAsPaidWithKey(ids, debtor, creditor, botPrivateKey) ==
  IF botPrivateKey = "undefined" THEN Untouched("InvalidKey")
  ELSE IF AbiAddress(debtor) \notin Accounts \/ AbiAddress(creditor) \notin Accounts
    THEN Untouched("InvalidAddress")
  ELSE batchMarkDebtsAsPaid(ids, debtor, creditor)

(***************************************************************************)
(* Concurrent ensureGroupExists calls (src/src/utils/blockchain.ts)        *)
(***************************************************************************)

\* no call running; tried and created tell whether the call sent its
\* createGroup and whether it was accepted, sawTrue whether one of its
\* groupExists reads returned true
IdleCall ==
  [pc |-> "idle", g |-> "G1", members |-> {}, creator |-> "a", retries |-> 0,
   tried |-> FALSE, created |-> FALSE, sawTrue |-> FALSE, outcome |-> "none"]


(***************************************************************************)
(* State machine                                                           *)
(***************************************************************************)
Init ==
  /\ groups = [g \in GroupIds |-> [exists |-> FALSE, members |-> {}]]
  /\ expenses = <<>>
  /\ debts = [e \in Edges |-> 0]
  /\ payments = EmptyBag
  /\ retired = {}
  /\ res = NoRes
  /\ wk = [w \in Workers |-> IdleWorker]
  /\ visible = {}
  /\ ens = IdleEnsure
  /\ bal = NoBalance
  /\ rate = InitRate
  /\ api = IdleApi
  /\ calls = [w \in Workers |-> IdleCall]

\* a createGroup call that the ledger accepts
CreateGroup(inputs) ==
  \E ci \in inputs :
    LET r == ContractCreateGroup(ci[1], ci[2], ci[3]) IN
    /\ r.status = "ok"
    /\ groups' = r.groups
    /\ res' = NoRes
    /\ UNCHANGED <<expenses, debts, payments, retired, wk, visible, ens, bal, rate, api, calls>>

\* a createGroup call that the ledger rejects
CreateGroupRejected(inputs) ==
  \E ci \in inputs :
    LET r == ContractCreateGroup(ci[1], ci[2], ci[3]) IN
    /\ r.status # "ok"
    /\ groups' = r.groups
    /\ res' = [op |-> "createGroup", status |-> r.status, args |-> ci]
    /\ UNCHANGED <<expenses, debts, payments, retired, wk, visible, ens, bal, rate, api, calls>>

\* the total the receipt flow records for a per-person share
TotalFor(g, pp) == pp * Cardinality(groups[g].members)

\* AddExpense with the expense stored in one step and the accrual left to
\* a later one
AddExpense_AppendOnly(inputs) ==
  \E gp \in inputs, pp \in 1..MaxAmount :
    LET r == addExpenseOnchain(gp[1], TotalFor(gp[1], pp), pp, gp[2]) IN
    /\ Len(expenses) < MaxExpenses
    /\ r.status = "ok"
    /\ expenses' = r.expenses
    /\ res' = NoRes
    /\ UNCHANGED <<groups, debts, payments, retired, wk, visible, ens, bal, rate, api, calls>>

\* an addExpense call that the ledger accepts
AddExpense(inputs) ==
  \E gp \in inputs, pp \in 1..MaxAmount :
    LET r == addExpenseOnchain(gp[1], TotalFor(gp[1], pp), pp, gp[2]) IN
    /\ Len(expenses) < MaxExpenses
    /\ r.status = "ok"
    /\ expenses' = r.expenses
    /\ debts' = r.debts
    /\ res' = NoRes
    /\ UNCHANGED <<groups, payments, retired, wk, visible, ens, bal, rate, api, calls>>

\* an addExpense call that the ledger rejects
AddExpenseRejected(inputs) ==
  \E gp \in inputs, pp \in 0..MaxAmount, total \in 0..1 :
    LET r == addExpenseOnchain(gp[1], total, pp, gp[2]) IN
    /\ r.status # "ok"
    /\ expenses' = r.expenses
    /\ debts' = r.debts
    /\ res' = [op |-> "addExpense", status |-> r.status, args |-> <<gp[1], gp[2], total, pp>>]
    /\ UNCHANGED <<groups, payments, retired, wk, visible, ens, bal, rate, api, calls>>

\* a markSinglePaid call that the ledger accepts
MarkSinglePaid(inputs) ==
  \E mi \in inputs, eid \in 1..MaxExpenses :
    LET r == markDebtAsPaid(eid, mi[2], mi[1]) IN
    /\ r.status = "ok"
    /\ debts' = r.debts
    /\ payments' = r.payments
    /\ retired' = r.retired
    /\ res' = NoRes
    /\ UNCHANGED <<groups, expenses, wk, visible, ens, bal, rate, api, calls>>

\* a markSinglePaid call that the ledger rejects
MarkSinglePaidRejected(inputs) ==
  \E mi \in inputs, eid \in 1..(MaxExpenses + 1) :
    LET r == markDebtAsPaid(eid, mi[2], mi[1]) IN
    /\ r.status # "ok"
    /\ debts' = r.debts
    /\ payments' = r.payments
    /\ retired' = r.retired
    /\ res' = [op |-> "markSinglePaid", status |-> r.status, args |-> <<eid, mi[1], mi[2]>>]
    /\ UNCHANGED <<groups, expenses, wk, visible, ens, bal, rate, api, calls>>

\* handlePaidCommand up to the debt read of findExpensesByCreditor;
\* reads holds the outcomes the read may have (TRUE: answered, FALSE: threw)
PaidReadDebt(w, inputs, reads) ==
  \E si \in inputs, ok \in reads :
    LET g == si[1]
        d == si[2]
        c == si[3]
        totalDebt == getDebtAmount(g, d, c, ok)
        o == Other(w)
        started == [IdleWorker EXCEPT !.pc = "list", !.g = g, !.d = d, !.c = c,
                                      !.totalDebt = totalDebt,
                                      !.since = Len(expenses)] IN
    /\ wk[w].pc \in {"idle", "done"}
    /\ wk' =
         IF IsZeroDebt(totalDebt)
           THEN [wk EXCEPT ![w] = Finished(w, g, d, c, EmptySelectionReply(totalDebt))]
         ELSE IF InFlight(o) /\ SameEdge(o, g, d, c)
           THEN [wk EXCEPT ![w] = [started EXCEPT !.peer = TRUE,
                                                  !.base = wk[o].totalDebt,
                                                  !.since = wk[o].since],
                           ![o] = [@ EXCEPT !.peer = TRUE,
                                            !.base = wk[o].totalDebt,
                                            !.peerDec = 0]]
         ELSE [wk EXCEPT ![w] = started]
    /\ UNCHANGED <<groups, expenses, debts, payments, retired, res, visible, ens, bal, rate, api, calls>>

\* the rest of findExpensesByCreditor and the reply to an empty selection
PaidSelect(w, reads) ==
  \E listOk \in reads, bad \in {b \in SUBSET (1..Len(expenses)) : FALSE \notin reads => b = {}} :
    LET ids == getGroupExpenses(wk[w].g, listOk)
        matching == MatchLoop(expenses, ids, bad, wk[w].d, wk[w].c, wk[w].totalDebt, 0, <<>>) IN
    /\ wk[w].pc = "list"
    /\ wk' = [wk EXCEPT ![w] =
           IF IsEmptySelection(matching)
             THEN Finished(w, @.g, @.d, @.c, EmptySelectionReply(@.totalDebt))
           ELSE [@ EXCEPT !.pc = "submit", !.matching = matching]]
    /\ UNCHANGED <<groups, expenses, debts, payments, retired, res, visible, ens, bal, rate, api, calls>>

\* resolveCreditorAddress: an address, in whatever case, resolves to its
\* lower-case form; an identifier that matches nothing resolves to null
resolveCreditorAddress(identifier) ==
  IF identifier \in AddrForms THEN ToLowerCase(identifier) ELSE "null"

\* handlePaidCommand from the command to the debt read: the creditor is
\* resolved first, and an identifier that does not resolve ends the command
PaidCommand(w, commands, reads) ==
  \E cmd \in commands :
    LET creditorAddress == resolveCreditorAddress(cmd[3]) IN
    IF creditorAddress = "null"
      THEN /\ wk[w].pc \in {"idle", "done"}
           /\ wk' = [wk EXCEPT ![w] = Finished(w, cmd[1], cmd[2], cmd[3],
                                               "UnknownCreditor")]
           /\ UNCHANGED <<groups, expenses, debts, payments, retired, res, visible,
                          ens, bal, rate, api, calls>>
    ELSE PaidReadDebt(w, {<<cmd[1], cmd[2], creditorAddress>>}, reads)

\* PaidSubmit sending the batch with debtor and creditor exchanged
PaidSubmit_ForCreditor(w) ==
  LET r == batchMarkDebtsAsPaid(wk[w].matching, wk[w].c, wk[w].d)
      o == Other(w)
      settled == IF r.status = "ok" THEN BatchTotal(wk[w].matching) ELSE 0 IN
  /\ wk[w].pc = "submit"
  /\ debts' = r.debts
  /\ payments' = r.payments
  /\ retired' = r.retired
  /\ wk' = [wk EXCEPT
         ![w] = [Finished(w, @.g, @.d, @.c, IF r.status = "ok" THEN "Paid" ELSE "Failed")
                   EXCEPT !.peer = wk[w].peer, !.base = wk[w].base,
                          !.since = wk[w].since, !.peerDec = wk[w].peerDec],
         ![o] = IF wk[w].peer /\ wk[o].peer /\ InFlight(o)
                  THEN [@ EXCEPT !.peerDec = settled] ELSE @]
  /\ UNCHANGED <<groups, expenses, res, visible, ens, bal, rate, api, calls>>

\* the batch transaction and the reply that follows it
PaidSubmit(w) ==
  LET r == batchMarkDebtsAsPaid(wk[w].matching, wk[w].d, wk[w].c)
      o == Other(w)
      settled == IF r.status = "ok" THEN BatchTotal(wk[w].matching) ELSE 0 IN
  /\ wk[w].pc = "submit"
  /\ debts' = r.debts
  /\ payments' = r.payments
  /\ retired' = r.retired
  /\ wk' = [wk EXCEPT
         ![w] = [Finished(w, @.g, @.d, @.c, IF r.status = "ok" THEN "Paid" ELSE "Failed")
                   EXCEPT !.peer = wk[w].peer, !.base = wk[w].base,
                          !.since = wk[w].since, !.peerDec = wk[w].peerDec],
         ![o] = IF wk[w].peer /\ wk[o].peer /\ InFlight(o)
                  THEN [@ EXCEPT !.peerDec = settled] ELSE @]
  /\ UNCHANGED <<groups, expenses, res, visible, ens, bal, rate, api, calls>>

\* the first existence check of ensureGroupExists, for a call set up as started
EnsureEntry(started, ok) ==
  IF groupExists(started.g, ok)
    THEN IF started.receipt = <<>>
           THEN [started EXCEPT !.pc = "done", !.outcome = "Exists"]
           ELSE [started EXCEPT !.pc = "add", !.outcome = "Exists"]
  ELSE [started EXCEPT !.pc = "create"]

\* ensureGroupExists up to its first existence check
EnsureStart(inputs, reads) ==
  \E ei \in inputs, ok \in reads :
    LET started == [IdleEnsure EXCEPT !.g = ei[1], !.members = ei[2], !.creator = ei[3],
                                      !.again = CalledBefore(ei[1], ei[2], ei[3])] IN
    /\ ens.pc \in {"idle", "done"}
    /\ ens' = EnsureEntry(started, ok)
    /\ UNCHANGED <<groups, expenses, debts, payments, retired, res, wk, visible, bal, rate, api, calls>>

\* TooFewPeople letting a chat of the payer alone through
TooFewPeople_Zero(numberOfPeople) == numberOfPeople <= 0

\* numberOfPeople <= 1 -> "You need at least one other person", return
TooFewPeople(numberOfPeople) == numberOfPeople <= 1

\* the attachment handler from the analysed receipt to the first existence
\* check of ensureGroupExists
ReceiptStart(inputs, reads) ==
  \E ri \in inputs, total \in 1..MaxTotal, ok \in reads :
    LET numberOfPeople == Cardinality(ri[2]) - 1
        perPerson == calculateSplit(total, numberOfPeople)
        memberAddresses == {m \in ri[2] : ToLowerCase(m) # Bot}
        started == [IdleEnsure EXCEPT !.g = ri[1], !.members = memberAddresses,
                                      !.creator = Bot,
                                      !.again = CalledBefore(ri[1], memberAddresses, Bot),
                                      !.receipt = <<ri[3], total, perPerson>>] IN
    /\ ens.pc \in {"idle", "done"}
    /\ ens' = IF TooFewPeople(numberOfPeople)
                THEN [IdleEnsure EXCEPT !.pc = "done", !.g = ri[1],
                                        !.outcome = "NeedMorePeople"]
              ELSE EnsureEntry(started, ok)
    /\ UNCHANGED <<groups, expenses, debts, payments, retired, res, wk, visible, bal, rate, api, calls>>

\* EnsureCreate returning as soon as the transaction is mined, without the
\* confirmation loop
EnsureCreate_NoWait ==
  LET r == createGroup(ens.g, ens.members, ens.creator) IN
  /\ ens.pc = "create"
  /\ groups' = r.groups
  /\ ens' = IF r.status = "ok"
              THEN [EnsureReturned("Created") EXCEPT !.creates = @ + 1]
            ELSE ResultReply([ens EXCEPT !.pc = "done", !.creates = @ + 1,
                                         !.receipt = <<>>,
                                         !.outcome = "CreateFailed"], FALSE)
  /\ UNCHANGED <<expenses, debts, payments, retired, res, wk, visible, bal, rate, api, calls>>

\* the createGroup transaction of ensureGroupExists, awaited
EnsureCreate ==
  LET r == createGroup(ens.g, ens.members, ens.creator) IN
  /\ ens.pc = "create"
  /\ groups' = r.groups
  /\ ens' = IF r.status = "ok"
              THEN [ens EXCEPT !.pc = "poll", !.creates = @ + 1]
            ELSE ResultReply([ens EXCEPT !.pc = "done", !.creates = @ + 1,
                                         !.receipt = <<>>,
                                         !.outcome = "CreateFailed"], FALSE)
  /\ UNCHANGED <<expenses, debts, payments, retired, res, wk, visible, bal, rate, api, calls>>

\* EnsurePoll with a loop that runs while retries <= maxRetries
EnsurePoll_OneMore(reads) ==
  \E ok \in reads :
    /\ ens.pc = "poll"
    /\ ens' = IF groupExists(ens.g, ok) THEN EnsureReturned("Created")
              ELSE IF ens.retries + 1 <= maxRetries
                THEN [ens EXCEPT !.retries = @ + 1]
              ELSE ResultReply([ens EXCEPT !.pc = "done", !.retries = 0,
                                           !.receipt = <<>>,
                                           !.outcome = "CreationTimedOut"], FALSE)
    /\ UNCHANGED <<groups, expenses, debts, payments, retired, res, wk, visible, bal, rate, api, calls>>

\* one round of the confirmation loop: wait, check, return or count the retry
EnsurePoll(reads) ==
  \E ok \in reads :
    /\ ens.pc = "poll"
    /\ ens' = IF groupExists(ens.g, ok) THEN EnsureReturned("Created")
              ELSE IF ens.retries + 1 < maxRetries
                THEN [ens EXCEPT !.retries = @ + 1]
              ELSE ResultReply([ens EXCEPT !.pc = "done", !.retries = 0,
                                           !.receipt = <<>>,
                                           !.outcome = "CreationTimedOut"], FALSE)
    /\ UNCHANGED <<groups, expenses, debts, payments, retired, res, wk, visible, bal, rate, api, calls>>

\* the registration of a group becomes visible to reads
Confirm ==
  \E g \in GroupIds :
    /\ groups[g].exists
    /\ g \notin visible
    /\ visible' = visible \cup {g}
    /\ UNCHANGED <<groups, expenses, debts, payments, retired, res, wk, ens, bal, rate, api, calls>>

\* ReceiptAddExpense with a reply that always carries the transaction link
ReceiptAddExpense_LinkAlways ==
  LET r == addExpenseOnchain(ens.g, ens.receipt[2], ens.receipt[3], ens.receipt[1]) IN
  /\ ens.pc = "add"
  /\ r.status = "ok" => Len(expenses) < MaxExpenses
  /\ expenses' = r.expenses
  /\ debts' = r.debts
  /\ ens' = ResultReply([ens EXCEPT !.pc = "done", !.receipt = <<>>,
                                    !.outcome = IF r.status = "ok" THEN "ExpenseAdded"
                                                ELSE "ExpenseFailed"],
                        TRUE)
  /\ UNCHANGED <<groups, payments, retired, res, wk, visible, bal, rate, api, calls>>

\* the addExpenseOnchain call of the attachment handler, its catch and the
\* result reply
ReceiptAddExpense ==
  LET r == addExpenseOnchain(ens.g, ens.receipt[2], ens.receipt[3], ens.receipt[1]) IN
  /\ ens.pc = "add"
  /\ r.status = "ok" => Len(expenses) < MaxExpenses
  /\ expenses' = r.expenses
  /\ debts' = r.debts
  /\ ens' = ResultReply([ens EXCEPT !.pc = "done", !.receipt = <<>>,
                                    !.outcome = IF r.status = "ok" THEN "ExpenseAdded"
                                                ELSE "ExpenseFailed"],
                        r.status = "ok")
  /\ UNCHANGED <<groups, payments, retired, res, wk, visible, bal, rate, api, calls>>

\* a getUserBalanceInfo call
BalanceInfo(inputs, reads) ==
  \E bi \in inputs, ok \in reads :
    /\ bal' = [g |-> bi[1], user |-> bi[2], exclude |-> bi[3],
               value |-> getUserBalanceInfo(bi[1], bi[2], bi[3], ok),
               at |-> debts]
    /\ UNCHANGED <<groups, expenses, debts, payments, retired, res, wk, visible, ens,
                   rate, api, calls>>

\* time passes between two messages
Tick ==
  /\ rate.now < MaxTicks * TickMs
  /\ rate' = [rate EXCEPT !.now = @ + TickMs]
  /\ UNCHANGED <<groups, expenses, debts, payments, retired, res, wk, visible, ens,
                 bal, api, calls>>

\* a message of sender reaches a handler, which asks checkRateLimit
RateRequest(senders) ==
  \E sender \in senders :
    LET r == checkRateLimit(sender) IN
    /\ Len(rate.log) < MaxRequests
    /\ rate' = [rate EXCEPT !.rateLimitMap = r.rateLimitMap,
                            !.log = Append(@, [sender |-> sender, at |-> rate.now,
                                               ok |-> r.ok])]
    /\ UNCHANGED <<groups, expenses, debts, payments, retired, res, wk, visible, ens,
                   bal, api, calls>>

\* router.post('/mark-paid'): validation, selection, the call
\* batchMarkDebtsAsPaid(expenseIds, creditorAddress, botPrivateKey) and the
\* response
ApiMarkPaid(inputs, reads) ==
  \E ai \in inputs, debtOk \in reads, listOk \in reads :
    LET groupId == ai[1]
        debtorAddress == ai[2]
        creditorAddress == ai[3]
        request == [IdleApi EXCEPT !.pc = "done", !.g = groupId,
                                   !.debtor = debtorAddress,
                                   !.creditor = creditorAddress]
        expenseIds == findExpensesByCreditor(groupId, debtorAddress, creditorAddress,
                                             debtOk, listOk, {})
        call == [sent |-> TRUE, ids |-> expenseIds, debtor |-> creditorAddress,
                 creditor |-> BotKey, key |-> "undefined"]
        r == batchMarkDebtsAsPaidWithKey(call.ids, call.debtor, call.creditor, call.key) IN
    IF groupId = "" \/ debtorAddress = "" \/ creditorAddress = ""
      THEN /\ api' = [request EXCEPT !.status = 400]
           /\ UNCHANGED <<debts, payments, retired>>
           /\ UNCHANGED <<groups, expenses, res, wk, visible, ens, bal, rate, calls>>
    ELSE IF Len(expenseIds) = 0
      THEN /\ api' = [request EXCEPT !.status = 404]
           /\ UNCHANGED <<debts, payments, retired>>
           /\ UNCHANGED <<groups, expenses, res, wk, visible, ens, bal, rate, calls>>
    ELSE /\ api' = [request EXCEPT !.expenseIds = expenseIds, !.call = call,
                                   !.status = IF r.status = "ok" THEN 200 ELSE 500]
         /\ debts' = r.debts
         /\ payments' = r.payments
         /\ retired' = r.retired
         /\ UNCHANGED <<groups, expenses, res, wk, visible, ens, bal, rate, calls>>

\* a caller enters ensureGroupExists: const exists = await groupExists(groupId)
CallStart(w, inputs, reads) ==
  \E ci \in inputs, ok \in reads :
    LET started == [IdleCall EXCEPT !.g = ci[1], !.members = ci[2], !.creator = ci[3]] IN
    /\ calls[w].pc \in {"idle", "done"}
    /\ calls' = [calls EXCEPT ![w] =
           IF groupExists(ci[1], ok)
             THEN [started EXCEPT !.pc = "done", !.sawTrue = TRUE, !.outcome = "Exists"]
           ELSE [started EXCEPT !.pc = "create"]]
    /\ UNCHANGED <<groups, expenses, debts, payments, retired, res, wk, visible, ens,
                   bal, rate, api>>

\* CallCreate going on to the confirmation loop whatever became of createGroup
CallCreate_Swallow(w) ==
  LET r == createGroup(calls[w].g, calls[w].members, calls[w].creator) IN
  /\ calls[w].pc = "create"
  /\ groups' = r.groups
  /\ calls' = [calls EXCEPT ![w] =
         [@ EXCEPT !.pc = "poll", !.tried = TRUE, !.created = (r.status = "ok")]]
  /\ UNCHANGED <<expenses, debts, payments, retired, res, wk, visible, ens,
                 bal, rate, api>>

\* await createGroup(groupId, members, creatorPrivateKey): a rejection is
\* rethrown by createGroup and leaves ensureGroupExists
CallCreate(w) ==
  LET r == createGroup(calls[w].g, calls[w].members, calls[w].creator) IN
  /\ calls[w].pc = "create"
  /\ groups' = r.groups
  /\ calls' = [calls EXCEPT ![w] =
         IF r.status = "ok"
           THEN [@ EXCEPT !.pc = "poll", !.tried = TRUE, !.created = TRUE]
         ELSE [@ EXCEPT !.pc = "done", !.tried = TRUE, !.outcome = "CreateFailed"]]
  /\ UNCHANGED <<expenses, debts, payments, retired, res, wk, visible, ens,
                 bal, rate, api>>

\* one round of the confirmation loop of a caller
CallPoll(w, reads) ==
  \E ok \in reads :
    /\ calls[w].pc = "poll"
    /\ calls' = [calls EXCEPT ![w] =
           IF groupExists(calls[w].g, ok)
             THEN [@ EXCEPT !.pc = "done", !.retries = 0, !.sawTrue = TRUE,
                            !.outcome = "Created"]
           ELSE IF calls[w].retries + 1 < maxRetries
             THEN [@ EXCEPT !.retries = @ + 1]
           ELSE [@ EXCEPT !.pc = "done", !.retries = 0,
                          !.outcome = "CreationTimedOut"]]
    /\ UNCHANGED <<groups, expenses, debts, payments, retired, res, wk, visible, ens,
                   bal, rate, api>>

NoFaults == {TRUE}
Faults == {TRUE, FALSE}

\* the ledger calls and one settlement request at a time
Next ==
  \/ CreateGroup(CreateInputs)
  \/ AddExpense(ExpenseInputs)
  \/ MarkSinglePaid(MarkInputs)
  \/ PaidReadDebt(1, SettleInputs, NoFaults)
  \/ PaidSelect(1, NoFaults)
  \/ PaidSubmit(1)

Spec == Init /\ [][Next]_vars

\* createGroup, addExpense and markSinglePaid, the rejected calls included
NextSingle ==
  \/ CreateGroup(CreateInputs)
  \/ AddExpense(ExpenseInputs)
  \/ MarkSinglePaid(MarkInputs)
  \/ MarkSinglePaidRejected(MarkInputs)

SpecSingle == Init /\ [][NextSingle]_vars

\* createGroup, addExpense and settleBatch only
NextBatch ==
  \/ CreateGroup(CreateInputs)
  \/ AddExpense(ExpenseInputs)
  \/ PaidReadDebt(1, SettleInputs, NoFaults)
  \/ PaidSelect(1, NoFaults)
  \/ PaidSubmit(1)

SpecBatch == Init /\ [][NextBatch]_vars

\* two settlement requests running concurrently against one edge
NextRace ==
  \/ CreateGroup(RaceCreateInputs)
  \/ AddExpense(RaceExpenseInputs)
  \/ \E w \in Workers : PaidReadDebt(w, RaceSettleInputs, NoFaults)
  \/ \E w \in Workers : PaidSelect(w, NoFaults)
  \/ \E w \in Workers : PaidSubmit(w)

SpecRace == Init /\ [][NextRace]_vars

\* settleBatch with ledger reads that may throw
NextFaults ==
  \/ CreateGroup(CreateInputs)
  \/ AddExpense(ExpenseInputs)
  \/ PaidReadDebt(1, SettleInputs, Faults)
  \/ PaidSelect(1, Faults)
  \/ PaidSubmit(1)

SpecFaults == Init /\ [][NextFaults]_vars

\* two settlement requests on one edge with ledger reads that may throw
NextRaceFaults ==
  \/ CreateGroup(RaceCreateInputs)
  \/ AddExpense(RaceExpenseInputs)
  \/ \E w \in Workers : PaidReadDebt(w, RaceSettleInputs, Faults)
  \/ \E w \in Workers : PaidSelect(w, Faults)
  \/ \E w \in Workers : PaidSubmit(w)

SpecRaceFaults == Init /\ [][NextRaceFaults]_vars

\* balance queries between ledger calls
NextBalance ==
  \/ CreateGroup(CreateInputs)
  \/ AddExpense(ExpenseInputs)
  \/ MarkSinglePaid(MarkInputs)
  \/ BalanceInfo(BalanceInputs, NoFaults)

SpecBalance == Init /\ [][NextBalance]_vars

\* messages of two senders as time passes
NextRate ==
  \/ Tick
  \/ RateRequest(Senders)

SpecRate == Init /\ [][NextRate]_vars

\* POST /api/mark-paid requests between ledger calls
NextApi ==
  \/ CreateGroup(CreateInputs)
  \/ AddExpense(ExpenseInputs)
  \/ ApiMarkPaid(ApiInputs, NoFaults)

SpecApi == Init /\ [][NextApi]_vars

\* "paid" commands, the creditor given by an identifier
NextPaid ==
  \/ CreateGroup(CreateInputs)
  \/ AddExpense(ExpenseInputs)
  \/ PaidCommand(1, PaidCommands, NoFaults)
  \/ PaidSelect(1, NoFaults)
  \/ PaidSubmit(1)

SpecPaid == Init /\ [][NextPaid]_vars

\* ensureGroupExists calls running concurrently, with reads that may throw
NextCalls ==
  \/ \E w \in Workers : CallStart(w, CallInputs, Faults)
  \/ \E w \in Workers : CallCreate(w)
  \/ \E w \in Workers : CallPoll(w, Faults)
  \/ Confirm

SpecCalls == Init /\ [][NextCalls]_vars

\* createGroup and addExpense calls, accepted and rejected
NextLedger ==
  \/ CreateGroup(LedgerCreateInputs)
  \/ CreateGroupRejected(LedgerCreateInputs)
  \/ AddExpense(ExpenseInputs)
  \/ AddExpenseRejected(ExpenseInputs)

SpecLedger == Init /\ [][NextLedger]_vars

\* the receipt flow in groups registered by one of their members
NextReceipt ==
  \/ CreateGroup(ReceiptCreateInputs)
  \/ Confirm
  \/ ReceiptStart(ReceiptInputs, NoFaults)
  \/ EnsureCreate
  \/ ReceiptAddExpense

SpecReceipt == Init /\ [][NextReceipt]_vars

\* ensureGroupExists calls with the confirmation of the registration arriving late
NextEnsure ==
  \/ EnsureStart(EnsureInputs, NoFaults)
  \/ EnsureCreate
  \/ EnsurePoll(NoFaults)
  \/ Confirm

SpecEnsure == Init /\ [][NextEnsure]_vars

\* the same, the awaited transaction and the timer of the loop making progress
SpecEnsureFair ==
  SpecEnsure /\ WF_vars(EnsureCreate) /\ WF_vars(EnsurePoll(NoFaults))

(***************************************************************************)
(* Properties                                                              *)
(***************************************************************************)

\* the edge a settlement request works on, as the ledger keys it
EdgeOf(r) == <<r.g, AbiAddress(r.d), AbiAddress(r.c)>>

\* the step in which request w sends its batch transaction
Submits(w) == wk[w].pc = "submit" /\ wk'[w].pc = "done"

\* the shares accrued on an edge by the expenses with an id above n
AccruedSince(e, n) ==
  SumSeq([i \in 1..Len(expenses) |->
            IF i > n /\ expenses[i].groupId = e[1] /\ expenses[i].payer = e[3]
               /\ e[2] \in expenses[i].participants
              THEN expenses[i].perPersonAmount ELSE 0])

\* the amounts of the Payment records of a set, with their multiplicity,
\* that go from e[2] to e[3] for expenses of group e[1]
RECURSIVE PaidOver(_, _)
PaidOver(S, e) ==
  IF S = {} THEN 0
  ELSE LET p == CHOOSE q \in S : TRUE IN
       (IF p.from = e[2] /\ p.to = e[3] /\ expenses[p.expenseId].groupId = e[1]
          THEN p.amount * CopiesIn(p, payments) ELSE 0)
       + PaidOver(S \ {p}, e)

PaidSum(e) == PaidOver(BagToSet(payments), e)

\* C1: accrual conservation - every debt edge equals the shares accrued on it
\* by the group's expenses minus the amounts of the payments made on it
C1_AccrualConservation ==
  \A e \in Edges : debts[e] = AccruedSince(e, 0) - PaidSum(e)

\* an edge that has accrued, has been paid in part and still carries debt
C1_Witness ==
  \E e \in Edges : PaidSum(e) > 0 /\ debts[e] > 0 /\ wk[1].outcome = "Paid"

\* C2: no debt edge is ever negative, and a settlement decrements its edge
\* by no more than the amount read at the start of that settlement
C2_NonNegativity ==
  /\ [](\A e \in Edges : debts[e] >= 0)
  /\ [][\A w \in Workers : Submits(w) =>
          debts[EdgeOf(wk[w])] - debts'[EdgeOf(wk[w])] <= wk[w].totalDebt]_vars
  /\ [][\A e \in Edges : debts[e] - debts'[e] <= debts[e]]_vars

\* a settlement that succeeded and left part of the debt it read outstanding
C2_Witness ==
  /\ wk[1].outcome = "Paid"
  /\ debts[EdgeOf(wk[1])] > 0
  /\ PaidSum(EdgeOf(wk[1])) > 0

\* the step in which request w sends its batch transaction and it succeeds
SubmitsPaid(w) == Submits(w) /\ wk'[w].outcome = "Paid"

\* two overlapping requests on one edge, the peer of w having settled already
AfterPeer(w) == wk[w].peer /\ wk[w].peerDec > 0

PaymentOf(id, d, c) ==
  [expenseId |-> id, from |-> d, to |-> c, amount |-> expenses[id].perPersonAmount]

CandidatesOf(g, d, c) ==
  SelectSeq([i \in 1..Len(expenses) |-> i],
            LAMBDA i : /\ expenses[i].groupId = g
                       /\ expenses[i].payer = AbiAddress(c)
                       /\ AbiAddress(d) \in expenses[i].participants)

\* the step in which request w ends its greedy pass
Selects(w) == wk[w].pc = "list" /\ wk'[w].pc # "list"

\* the batch request w has after its greedy pass
Selected(r) == IF r.pc = "submit" THEN r.matching ELSE <<>>

\* the shares of the ids of batch m that are below id k
TotalBefore(m, k) ==
  SumSeq([j \in 1..Len(m) |-> IF m[j] < k THEN expenses[m[j]].perPersonAmount ELSE 0])

\* the receipt example of the greedy rule in units of 5.00: a debt of 15.00
\* and two candidates of 10.00
ExampleExpenses ==
  <<[groupId |-> "G1", payer |-> "A", totalAmount |-> 6, perPersonAmount |-> 2,
     participants |-> {"B", "C"}],
    [groupId |-> "G1", payer |-> "A", totalAmount |-> 6, perPersonAmount |-> 2,
     participants |-> {"B", "C"}]>>

\* C5: greedy matching - the batch is taken from the candidates in creation
\* order, a candidate is in it exactly when the running total of the earlier
\* ones taken plus its share is at most the debt read, later candidates are
\* still tried after one that does not fit, and the batch total is at most
\* the debt read; a debt of 15.00 with candidates 10.00, 10.00 takes the first
C5_GreedyMatching ==
  /\ [][\A w \in Workers : Selects(w) =>
          LET m == Selected(wk'[w])
              cand == CandidatesOf(wk[w].g, wk[w].d, wk[w].c) IN
          /\ \A j \in 1..Len(m) : m[j] \in Range(cand)
          /\ \A i, j \in 1..Len(m) : i < j => m[i] < m[j]
          /\ \A k \in Range(cand) :
               k \in Range(m) <=>
                 TotalBefore(m, k) + expenses[k].perPersonAmount <= wk[w].totalDebt
          /\ BatchTotal(m) <= wk[w].totalDebt]_vars
  /\ [](MatchLoop(ExampleExpenses, <<1, 2>>, {}, "b", "a", 3, 0, <<>>) = <<1>>)

\* the first candidate did not fit the debt read and the second one was taken
C5_Witness ==
  /\ wk[1].pc = "submit"
  /\ wk[1].matching = <<2>>
  /\ CandidatesOf(wk[1].g, wk[1].d, wk[1].c) = <<1, 2>>
  /\ expenses[1].perPersonAmount > wk[1].totalDebt

\* C6: the candidates of a settlement are not already retired for the debtor -
\* no expense a greedy pass selects carries a retired mark for that debtor
C6_CandidatesNotRetired ==
  [][\A w \in Workers : Selects(w) =>
       \A id \in Range(Selected(wk'[w])) :
         <<id, AbiAddress(wk[w].d)>> \notin retired]_vars

\* C7: full settlement - with no call in between the debt read and the batch,
\* a successful settlement leaves the edge at zero and every expense of the
\* group paid by the creditor with the debtor taking part retired
C7_FullSettlement ==
  [][\A w \in Workers :
       /\ SubmitsPaid(w)
       /\ debts[EdgeOf(wk[w])] = wk[w].totalDebt
       /\ Len(expenses) = wk[w].since
       => /\ debts'[EdgeOf(wk[w])] = 0
          /\ \A id \in Range(CandidatesOf(wk[w].g, wk[w].d, wk[w].c)) :
               <<id, AbiAddress(wk[w].d)>> \in retired']_vars

\* the step in which request w reads the debt of an edge
ReadsDebt(w) == wk[w].pc \in {"idle", "done"} /\ wk'[w] # wk[w]

\* C8: a settlement requested while the debt of its edge is zero ends with
\* NoDebt at once: no batch is selected or submitted, no Payment record is
\* written and no debt edge changes
C8_NoDebt ==
  [][\A w \in Workers :
       ReadsDebt(w) /\ debts[EdgeOf(wk'[w])] = 0 =>
         /\ wk'[w].pc = "done"
         /\ wk'[w].outcome = "NoDebt"
         /\ debts' = debts
         /\ payments' = payments
         /\ retired' = retired]_vars

\* a settlement requested again after the edge was paid down to zero
C8_Witness ==
  /\ wk[1].pc = "done"
  /\ wk[1].outcome = "NoDebt"
  /\ debts[EdgeOf(wk[1])] = 0
  /\ PaidSum(EdgeOf(wk[1])) > 0

\* C9: a greedy pass that selects nothing while the debt read is positive ends
\* with NoMatchingExpenses, an outcome other than NoDebt, and changes neither
\* the debts nor the payments
C9_NoMatchingExpenses ==
  [][\A w \in Workers :
       Selects(w) /\ Selected(wk'[w]) = <<>> /\ wk[w].totalDebt > 0 =>
         /\ wk'[w].outcome = "NoMatchingExpenses"
         /\ debts' = debts
         /\ payments' = payments]_vars

\* the edge a markSinglePaid of expense eid by caller towards creditor is about
SingleEdge(eid, caller, creditor) ==
  <<expenses[eid].groupId, AbiAddress(caller), AbiAddress(creditor)>>

\* C10: markSinglePaid decrements the edge (group of the expense, caller,
\* creditor) by exactly the expense's share and writes one Payment record;
\* when the debt of that edge is smaller than the share it fails with
\* DebtMismatch, does not clamp the edge, writes no record and changes nothing
C10_MarkSinglePaid ==
  /\ [](\A mi \in MarkInputs, eid \in 1..Len(expenses) :
          LET r == markDebtAsPaid(eid, mi[2], mi[1])
              edge == SingleEdge(eid, mi[1], mi[2])
              pp == expenses[eid].perPersonAmount IN
          IF debts[edge] < pp
            THEN /\ r.status = "DebtMismatch"
                 /\ r.debts = debts
                 /\ r.payments = payments
                 /\ r.retired = retired
            ELSE /\ r.status = "ok"
                 /\ r.debts = [debts EXCEPT ![edge] = @ - pp]
                 /\ r.payments = payments (+) SetToBag({PaymentOf(eid, edge[2], edge[3])}))
  /\ [][res'.op = "markSinglePaid" /\ res'.status = "DebtMismatch" =>
          /\ debts' = debts
          /\ payments' = payments
          /\ debts[SingleEdge(res'.args[1], res'.args[2], res'.args[3])]
               < expenses[res'.args[1]].perPersonAmount]_vars
  /\ [][payments' # payments =>
          \E mi \in MarkInputs, eid \in 1..Len(expenses) :
            LET edge == SingleEdge(eid, mi[1], mi[2])
                pp == expenses[eid].perPersonAmount IN
            /\ debts[edge] >= pp
            /\ debts' = [debts EXCEPT ![edge] = @ - pp]
            /\ payments' = payments (+) SetToBag({PaymentOf(eid, edge[2], edge[3])})]_vars

\* a markSinglePaid refused on an edge that still carries a debt, smaller
\* than the share of the expense
C10_Witness ==
  /\ res.op = "markSinglePaid"
  /\ res.status = "DebtMismatch"
  /\ debts[SingleEdge(res.args[1], res.args[2], res.args[3])] > 0
  /\ PaidSum(SingleEdge(res.args[1], res.args[2], res.args[3])) > 0

\* the step stores a new expense
Appends == Len(expenses') = Len(expenses) + 1

\* the expense a step has stored
Appended == expenses'[Len(expenses')]

\* the edge of participant p of expense x towards its payer
AccrualEdge(x, p) == <<x.groupId, p, x.payer>>

\* C11: addExpense is atomic for readers - the step that stores an expense
\* raises the edge of every participant towards the payer, the store grows
\* by one record at a time, and no edge rises in a step that stores no expense
C11_AtomicAccrual ==
  [][/\ Len(expenses') # Len(expenses) =>
          /\ Appends
          /\ \A p \in Appended.participants :
               debts'[AccrualEdge(Appended, p)] > debts[AccrualEdge(Appended, p)]
     /\ \A e \in Edges : debts'[e] > debts[e] =>
          /\ Appends
          /\ e[1] = Appended.groupId /\ e[3] = Appended.payer
          /\ e[2] \in Appended.participants]_vars

\* a settlement request in progress reads an edge on which an expense stored
\* after its debt read has accrued
C11_Witness ==
  /\ InFlight(1)
  /\ Len(expenses) > wk[1].since
  /\ AccruedSince(EdgeOf(wk[1]), wk[1].since) > 0
  /\ debts[EdgeOf(wk[1])] = wk[1].totalDebt + AccruedSince(EdgeOf(wk[1]), wk[1].since)

\* C12: a successful addExpense raises the edge of each participant towards
\* the payer by exactly the per-participant amount and changes no other edge;
\* in G1 = {A, B, C} a first expense of A leaves B -> A and C -> A at the
\* share and every other edge at zero
C12_AccrualFrame ==
  /\ [][Appends =>
          /\ debts' = [e \in Edges |->
                IF e[1] = Appended.groupId /\ e[3] = Appended.payer
                   /\ e[2] \in Appended.participants
                  THEN debts[e] + Appended.perPersonAmount ELSE debts[e]]
          /\ payments' = payments
          /\ retired' = retired]_vars
  /\ [](/\ Len(expenses) = 1 /\ payments = EmptyBag
         /\ expenses[1].groupId = "G1" /\ expenses[1].payer = "A"
         /\ groups["G1"].members = {"A", "B", "C"}
         => \A e \in Edges :
              debts[e] = IF e \in {<<"G1", "B", "A">>, <<"G1", "C", "A">>}
                           THEN expenses[1].perPersonAmount ELSE 0)

\* expenses in two groups: the participants' edges carry debt, the reverse
\* edge in G1 and the edge between the two participants carry none
C12_Witness ==
  /\ Len(expenses) = 2
  /\ debts[<<"G1", "B", "A">>] > 0
  /\ debts[<<"G1", "C", "A">>] > 0
  /\ debts[<<"G1", "A", "B">>] = 0
  /\ debts[<<"G1", "B", "C">>] = 0
  /\ debts[<<"G2", "A", "B">>] > 0

\* C13: addExpense fails with NotAMember when the payer is not a member of
\* the group and with InvalidAmount when the total or the per-participant
\* amount is not positive; a rejected call stores no expense and changes no
\* edge, and every stored expense has a member as payer and positive amounts
C13_AddExpenseRejects ==
  /\ [](\A gp \in ExpenseInputs, total \in 0..MaxAmount, pp \in 0..MaxAmount :
          LET r == addExpenseOnchain(gp[1], total, pp, ToLowerCase(gp[2]))
              member == groups[gp[1]].exists /\ gp[2] \in groups[gp[1]].members
              amounts == total > 0 /\ pp > 0 IN
          /\ ~member /\ amounts => r.status = "NotAMember"
          /\ member /\ ~amounts => r.status = "InvalidAmount"
          /\ ~member \/ ~amounts =>
               /\ r.status \in {"NotAMember", "InvalidAmount"}
               /\ r.expenses = expenses
               /\ r.debts = debts)
  /\ [][res'.op = "addExpense" /\ res' # res =>
          expenses' = expenses /\ debts' = debts]_vars
  /\ [][Appends =>
          /\ Appended.payer \in groups[Appended.groupId].members
          /\ Appended.totalAmount > 0
          /\ Appended.perPersonAmount > 0]_vars

\* an addExpense of a member with a non-positive amount was refused while
\* the group already carries debt
C13_Witness ==
  /\ res.op = "addExpense"
  /\ res.status = "InvalidAmount"
  /\ res.args[2] \in groups[res.args[1]].members
  /\ \E e \in Edges : e[1] = res.args[1] /\ debts[e] > 0

\* C14: self-exclusion - no stored expense has its payer among its
\* participants or an empty participant set; addExpense on a group whose only
\* member is the payer fails and stores nothing, and the receipt flow goes to
\* the ledger only for a chat with at least two people
C14_SelfExclusion ==
  /\ [](\A i \in 1..Len(expenses) :
          expenses[i].payer \notin expenses[i].participants
          /\ expenses[i].participants # {})
  /\ [](\A g \in GroupIds, payer \in LowerForms :
          groups[g].exists /\ groups[g].members = {AbiAddress(payer)} =>
            LET r == addExpenseOnchain(g, 1, 1, payer) IN
            r.status # "ok" /\ r.expenses = expenses /\ r.debts = debts)
  /\ [](ens.receipt # <<>> => Cardinality(ens.members) >= 2)

\* a receipt of the only member of a registered group was refused by the ledger
C14_Witness ==
  /\ ens.pc = "done"
  /\ ens.outcome = "ExpenseFailed"
  /\ groups[ens.g].exists
  /\ Cardinality(groups[ens.g].members) = 1

\* C15: every expense recorded through the receipt flow has a per-participant
\* amount that, times the number of its participants, is at most its total
C15_SplitWithinTotal ==
  \A i \in 1..Len(expenses) :
    expenses[i].perPersonAmount * Cardinality(expenses[i].participants)
      <= expenses[i].totalAmount

EnsureBegins == ens.pc \in {"idle", "done"} /\ ens' # ens

\* a step that is one poll of the confirmation loop
EnsurePolls == ens.pc = "poll" /\ ens' # ens

\* C18: ensureGroupExists always terminates. A call that finds the group
\* visible returns without a create and without a poll; otherwise it issues one
\* create and then polls: the poll that sees the group returns, each negative
\* poll counts one retry, and the 10th negative poll fails with
\* CreationTimedOut, so no call polls more than 10 times.
C18_EnsureTerminates ==
  /\ [](/\ ens.retries < 10
        /\ ens.creates <= 1
        /\ ens.pc = "poll" => ens.creates = 1
        /\ ens.pc # "poll" => ens.retries = 0
        /\ ens.outcome = "Exists" => ens.creates = 0
        /\ ens.outcome \in {"Created", "CreationTimedOut"} => ens.creates = 1)
  /\ [][EnsureBegins =>
          IF ens'.g \in visible
            THEN ens'.pc = "done" /\ ens'.outcome = "Exists" /\ groups' = groups
          ELSE ens'.pc = "create" /\ ens'.creates = 0]_vars
  /\ [][EnsurePolls =>
          IF ens.g \in visible
            THEN ens'.pc = "done" /\ ens'.outcome = "Created"
          ELSE IF ens.retries = 10 - 1
            THEN ens'.pc = "done" /\ ens'.outcome = "CreationTimedOut"
          ELSE ens'.pc = "poll" /\ ens'.retries = ens.retries + 1]_vars
  /\ (ens.pc \in {"create", "poll"} ~> ens.pc = "done")

\* a call that issued its create and saw ten negative polls
C18_Witness ==
  /\ ens.pc = "done"
  /\ ens.outcome = "CreationTimedOut"
  /\ ens.creates = 1
  /\ groups[ens.g].exists
  /\ ens.g \notin visible
\* C19: settlement determinism. Two selections made for the same edge from
\* the same expenses and the same debt select the same ordered list of expense
\* ids (hence the same settled total): when one request holds its batch and
\* the other, having read the same debt, selects while no expense was added
\* since either read, the second batch is the first one.
C19_Determinism ==
  [][\A w \in Workers :
       LET o == Other(w) IN
       /\ Selects(w)
       /\ wk[o].pc = "submit"
       /\ EdgeOf(wk[o]) = EdgeOf(wk[w])
       /\ wk[o].totalDebt = wk[w].totalDebt
       /\ wk[o].since = Len(expenses)
       /\ wk[w].since = Len(expenses)
       => /\ wk'[w].pc = "submit"
          /\ wk'[w].matching = wk[o].matching
          /\ BatchTotal(wk'[w].matching) = BatchTotal(wk[o].matching)]_vars
\* the Payment records a step writes
NewPayments == BagToSet(payments' (-) payments)

\* the edges the Payment records of a step were written for
SettledEdges == {<<expenses[p.expenseId].groupId, p.from, p.to>> : p \in NewPayments}

\* C20: a successful settlement, batch or single, is confined to its edge.
\* It leaves every Expense record and every group as it was; it writes
\* Payment records for one edge (g, d, c) only, lowers that edge and no other
\* (not the reverse edge, not another debtor's edge towards c, not an edge of
\* another group), and adds retired marks for d only; a settled batch request
\* acts on the edge of its sender and resolved creditor.
C20_SettlementFrame ==
  [][payments' # payments =>
       /\ expenses' = expenses
       /\ groups' = groups
       /\ Cardinality(SettledEdges) = 1
       /\ \A edge \in SettledEdges :
            /\ debts'[edge] < debts[edge]
            /\ \A e \in Edges \ {edge} : debts'[e] = debts[e]
            /\ retired \subseteq retired'
            /\ \A m \in retired' \ retired :
                 m[2] = edge[2] /\ expenses[m[1]].groupId = edge[1]
            /\ SubmitsPaid(1) => edge = EdgeOf(wk[1])]_vars

\* B has settled towards A in G1 and its edge is 0, while what C owes A
\* in the same group still stands
C20_Witness ==
  /\ \E p \in BagToSet(payments) :
       p.from = "B" /\ p.to = "A" /\ expenses[p.expenseId].groupId = "G1"
  /\ debts[<<"G1", "B", "A">>] = 0
  /\ debts[<<"G1", "C", "A">>] > 0
  /\ debts[<<"G1", "A", "B">>] = 0
\* the entries a balance query must list for what user owes: the non-zero
\* edges of the ledger read, the excluded counterparty left out
DebtEntries(b) ==
  {[creditor |-> c, amount |-> b.at[<<b.g, AbiAddress(b.user), c>>]] :
     c \in {x \in Accounts : /\ b.at[<<b.g, AbiAddress(b.user), x>>] > 0
                             /\ ToLowerCase(x) # ToLowerCase(b.exclude)}}

\* the same for what is owed to user
CreditEntries(b) ==
  {[debtor |-> d, amount |-> b.at[<<b.g, d, AbiAddress(b.user)>>]] :
     d \in {x \in Accounts : /\ b.at[<<b.g, x, AbiAddress(b.user)>>] > 0
                             /\ ToLowerCase(x) # ToLowerCase(b.exclude)}}

\* the sum of the amount fields of a sequence of entries
Amounts(s) == SumSeq([i \in 1..Len(s) |-> s[i].amount])

\* the sum of the ledger's edges between user and the accounts not excluded
EdgeSum(b, owing) ==
  SumSeq([i \in 1..Len(AccountOrder) |->
            IF ToLowerCase(AccountOrder[i]) = ToLowerCase(b.exclude) THEN 0
            ELSE IF owing THEN b.at[<<b.g, AbiAddress(b.user), AccountOrder[i]>>]
            ELSE b.at[<<b.g, AccountOrder[i], AbiAddress(b.user)>>]])

ListedDebt(g, d, c) ==
  LET read == ContractGetUserDebts(g, d) IN
  {read[2][i] : i \in {k \in 1..Len(read[1]) : read[1][k] = c}}

\* the amounts with which getUserCredits(g, c) lists debtor d
ListedCredit(g, d, c) ==
  LET read == ContractGetUserCredits(g, c) IN
  {read[2][i] : i \in {k \in 1..Len(read[1]) : read[1][k] = d}}

\* the netBalance getUserBalanceInfo returns to each account listed, summed
RECURSIVE NetSum(_, _)
NetSum(g, order) ==
  IF order = <<>> THEN 0
  ELSE getUserBalanceInfo(g, ToLowerCase(Head(order)), "none", TRUE).netBalance
       + NetSum(g, Tail(order))

\* the members of g in the order of AccountOrder
MembersOf(g) == SelectSeq(AccountOrder, LAMBDA m : m \in groups[g].members)

\* C22: in every reachable state and every group, the debts listed for d, the
\* credits listed for c and the edge (g, d, c) tell the same thing: c with
\* amount a is among d's debts iff d with amount a is among c's credits
\* iff getDebt(g, d, c) = a > 0; and the netBalance of getUserBalanceInfo
\* without exclusion, summed over the members of the group, is 0.
C22_DebtsMirrorCredits ==
  \A g \in GroupIds :
    /\ \A d \in Accounts, c \in Accounts :
         /\ ListedDebt(g, d, c) = ListedCredit(g, d, c)
         /\ ListedDebt(g, d, c) = {a \in {GetDebt(g, d, c)} : a > 0}
    /\ NetSum(g, MembersOf(g)) = 0

\* B and C owe A different amounts in G1: A's balance is what both owe
C22_Witness ==
  /\ GetDebt("G1", "B", "A") > 0
  /\ GetDebt("G1", "C", "A") > GetDebt("G1", "B", "A")
  /\ getUserBalanceInfo("G1", "a", "none", TRUE).netBalance
       = GetDebt("G1", "B", "A") + GetDebt("G1", "C", "A")
  /\ getUserBalanceInfo("G1", "b", "none", TRUE).netBalance < 0
\* s is t or t cut short
IsPrefix(s, t) == Len(s) <= Len(t) /\ SubSeq(t, 1, Len(s)) = s

TooSoon(k) ==
  \E j \in 1..(k - 1) :
    /\ rate.log[j].sender = rate.log[k].sender
    /\ rate.log[j].ok
    /\ rate.log[k].at - rate.log[j].at < 5000

\* C25: a request is accepted iff its sender has no accepted request less
\* than 5000 ms before it. Rejected requests and the requests of other
\* senders do not count, so a sender who keeps sending is accepted again
\* 5000 ms after the last accepted request.
C25_RateLimit ==
  \A k \in 1..Len(rate.log) : rate.log[k].ok <=> ~TooSoon(k)

\* a accepted, rejected 2500 ms later, accepted again 5000 ms after the first
\* request; b accepted in between
C25_Witness ==
  \E i, j, k, m \in 1..Len(rate.log) :
    /\ i < j /\ j < k
    /\ rate.log[i].sender = "a" /\ rate.log[i].ok
    /\ rate.log[j].sender = "a" /\ ~rate.log[j].ok
    /\ rate.log[k].sender = "a" /\ rate.log[k].ok
    /\ rate.log[k].at = rate.log[i].at + 5000
    /\ rate.log[m].sender = "b" /\ rate.log[m].ok
    /\ rate.log[i].at < rate.log[m].at /\ rate.log[m].at < rate.log[k].at
\* C26: POST /api/mark-paid settles the edge it selected for. A request with
\* a missing field is answered 400 and one with an empty selection 404, both
\* without a contract call; any other request calls batchMarkAsPaid with the
\* selected ids, debtor = debtorAddress and creditor = creditorAddress of the
\* request, signed with the bot's key.
C26_MarkPaidApi ==
  api.pc = "done" =>
    /\ api.status = 400 <=> (api.g = "" \/ api.debtor = "" \/ api.creditor = "")
    /\ api.status \in {400, 404} => ~api.call.sent
    /\ api.status \notin {400, 404} =>
         /\ api.call.sent
         /\ api.call.ids = api.expenseIds
         /\ api.call.debtor = api.debtor
         /\ api.call.creditor = api.creditor
         /\ api.call.key = BotKey
\* C27: the settlement flow answers NoDebt only when the debt of the edge is
\* zero: a request never ends with NoDebt in a state where the ledger holds a
\* positive debt on its edge, whatever became of its reads.
C27_NoDebtOnlyWhenZero ==
  [][\A w \in Workers :
       wk'[w] # wk[w] /\ wk'[w].pc = "done" /\ wk'[w].outcome = "NoDebt" =>
         debts[EdgeOf(wk'[w])] = 0]_vars
\* what one batchMarkAsPaid(ids of the selection, sender, resolved creditor)
\* does to the ledger in the current state
OneBatch(r) == ContractBatchMarkAsPaid(r.matching, AbiAddress(r.d), AbiAddress(r.c))

\* C28: a "paid" command sends at most one batchMarkAsPaid transaction, for
\* the ids of its selection in their order, with debtor = the sender and
\* creditor = the resolved address, and then ends; the steps of a command
\* whose creditor does not resolve or whose selection is empty send nothing.
C28_OneBatchPerCommand ==
  /\ [][payments' # payments \/ retired' # retired \/ debts' # debts
          => Submits(1) \/ Len(expenses') > Len(expenses)]_vars
  /\ [][Len(expenses') = Len(expenses) /\ ~Submits(1)
          => debts' = debts /\ payments' = payments /\ retired' = retired]_vars
  /\ [][Submits(1) =>
          /\ wk[1].matching # <<>>
          /\ debts' = OneBatch(wk[1]).debts
          /\ payments' = OneBatch(wk[1]).payments
          /\ retired' = OneBatch(wk[1]).retired
          /\ wk'[1].outcome = IF OneBatch(wk[1]).status = "ok" THEN "Paid" ELSE "Failed"]_vars
  /\ [](wk[1].pc = "done" /\ wk[1].outcome = "UnknownCreditor"
          => resolveCreditorAddress(wk[1].c) = "null")
  /\ [](wk[1].pc \in {"list", "submit"} => wk[1].c \in LowerForms)

\* the command "paid A" of b has settled the two expenses A paid for, in one
\* batch: one Payment record for each, from B to A
C28_Witness ==
  /\ wk[1].pc = "done" /\ wk[1].outcome = "Paid"
  /\ wk[1].d = "b" /\ wk[1].c = "a"
  /\ Len(expenses) = 2
  /\ payments = PaymentsFor(<<1, 2>>, "B", "A")
  /\ debts[<<"G1", "B", "A">>] = 0
\* the step in which caller w gets the answer to its createGroup
CreateAnswered(w) == calls[w].pc = "create" /\ calls'[w].pc # "create"

\* C29: however concurrent ensureGroupExists calls for one groupId interleave,
\* at most one createGroup for the id succeeds (a successful one registers an
\* id that was free, and a registered group is never replaced); a call
\* returns normally only after one of its own groupExists reads returned true;
\* a call whose createGroup is rejected fails and never polls.
C29_ConcurrentEnsure ==
  /\ [](\A w \in Workers :
          /\ calls[w].pc = "poll" => calls[w].created
          /\ calls[w].outcome \in {"Exists", "Created"} => calls[w].sawTrue
          /\ calls[w].outcome = "Created" => calls[w].created
          /\ calls[w].created => groups[calls[w].g].exists)
  /\ [](\A w \in Workers :
          calls[w].created /\ calls[Other(w)].created => calls[w].g # calls[Other(w)].g)
  /\ [][\A w \in Workers :
          CreateAnswered(w) =>
            IF groups[calls[w].g].exists
              THEN /\ groups' = groups
                   /\ calls'[w].pc = "done"
                   /\ calls'[w].outcome = "CreateFailed"
            ELSE calls'[w].created /\ groups'[calls[w].g].exists]_vars
  /\ [][\A g \in GroupIds : groups[g].exists => groups'[g] = groups[g]]_vars

\* two calls for G1 both found it absent and both sent createGroup: one was
\* accepted and confirmed, the other rejected
C29_Witness ==
  \E w \in Workers :
    /\ calls[w].pc = "done" /\ calls[w].outcome = "Created"
    /\ calls[Other(w)].pc = "done" /\ calls[Other(w)].outcome = "CreateFailed"
    /\ calls[w].g = calls[Other(w)].g
    /\ calls[w].members # calls[Other(w)].members
\* the outcomes with which the attachment handler ends after its on-chain steps
ReceiptEnds == {"CreateFailed", "CreationTimedOut", "ExpenseAdded", "ExpenseFailed"}

\* C30: in the attachment handler addExpenseOnchain is attempted only after
\* ensureGroupExists has returned for the group of the conversation; whether
\* a step fails or not the handler goes on to send exactly one result reply,
\* and the reply has the transaction link iff addExpenseOnchain succeeded.
C30_ReceiptReply ==
  /\ [](ens.pc = "add" =>
          /\ ens.outcome \in {"Exists", "Created"}
          /\ ens.g \in visible
          /\ ens.replies = 0)
  /\ [](ens.pc = "done" /\ ens.outcome \in ReceiptEnds =>
          /\ ens.replies = 1
          /\ ens.txLink <=> ens.outcome = "ExpenseAdded")
  /\ [](ens.pc # "done" => ens.replies = 0)
  /\ [][Len(expenses') > Len(expenses) =>
          /\ ens.pc = "add"
          /\ ens'.outcome = "ExpenseAdded"
          /\ expenses'[Len(expenses')].groupId = ens.g]_vars
  /\ [][ens.pc = "add" /\ ens'.pc # "add" =>
          /\ ens'.pc = "done"
          /\ ens'.outcome = "ExpenseAdded" <=> Len(expenses') > Len(expenses)]_vars

\* a receipt whose addExpenseOnchain was refused: the handler has replied
\* once, without a transaction link, and no expense was stored
C30_Witness ==
  /\ ens.pc = "done"
  /\ ens.outcome = "ExpenseFailed"
  /\ ens.replies = 1
  /\ ~ens.txLink
  /\ ens.g \in visible
  /\ expenses = <<>>
====
